---- MODULE Spec2Model ----
(***************************************************************************)
(* Model of BAF2/v3/scripts/fix-connection-profile.py: a straight-line     *)
(* script that backs up a connection profile, parses it as JSON, sets two  *)
(* fields, flattens the PEM certificates and writes the result to another  *)
(* path.                                                                   *)
(*                                                                         *)
(* A Python str is a sequence of one-character strings.  A JSON value is a *)
(* tagged record [t, v]: t is "map", "list", "str", "num", "bool" or       *)
(* "null"; v is a function from keys to values, a sequence of values, a    *)
(* sequence of characters, a number, a boolean or 0.                       *)
(***************************************************************************)
EXTENDS Integers, Sequences, FiniteSets, TLC

\* ------------------------------------------------------------- bounds
\* Longest certificate text, counted in the pieces of Pieces.
MaxPieces == 3
\* Deepest nesting of maps and sequences put around a "pem" entry.
MaxDepth == 2

\* ------------------------------------------------------------- strings
Min(S) == CHOOSE x \in S : \A y \in S : x <= y
Max(S) == CHOOSE x \in S : \A y \in S : x >= y

\* '-----BEGIN CERTIFICATE-----'
BEGIN_CERTIFICATE ==
  << "-", "-", "-", "-", "-", "B", "E", "G", "I", "N", " ",
     "C", "E", "R", "T", "I", "F", "I", "C", "A", "T", "E",
     "-", "-", "-", "-", "-" >>

\* '\\n': the two characters backslash and n
ESCAPED_NEWLINE == << "\\", "n" >>

\* 'Org1MSP'
ORG1MSP == << "O", "r", "g", "1", "M", "S", "P" >>

\* The characters str.strip() removes when called without an argument.
Whitespace == { " ", "\n", "\t", "\r", "\f" }

\* sub in value
Contains(value, sub) ==
  \E i \in 0..(Len(value) - Len(sub)) :
    \A j \in 1..Len(sub) : value[i + j] = sub[j]

\* Mutant of Strip: value.lstrip()
StripLeftOnly(value) ==
  LET keep == { i \in 1..Len(value) : value[i] \notin Whitespace }
  IN  IF keep = {} THEN << >> ELSE SubSeq(value, Min(keep), Len(value))

\* value.strip()
Strip(value) ==
  LET keep == { i \in 1..Len(value) : value[i] \notin Whitespace }
  IN  IF keep = {} THEN << >> ELSE SubSeq(value, Min(keep), Max(keep))

\* value.split('\n'): always at least one line, empty lines kept
RECURSIVE Split(_)
Split(value) ==
  LET nl == { i \in 1..Len(value) : value[i] = "\n" }
  IN  IF nl = {} THEN << value >>
      ELSE << SubSeq(value, 1, Min(nl) - 1) >>
             \o Split(SubSeq(value, Min(nl) + 1, Len(value)))

\* sep.join(lines)
RECURSIVE Join(_, _)
Join(sep, lines) ==
  IF Len(lines) = 0 THEN << >>
  ELSE IF Len(lines) = 1 THEN lines[1]
  ELSE lines[1] \o sep \o Join(sep, Tail(lines))

\* ------------------------------------------------------------- JSON values
Str(s)   == [t |-> "str", v |-> s]
Map(f)   == [t |-> "map", v |-> f]
List(q)  == [t |-> "list", v |-> q]
Bool(b)  == [t |-> "bool", v |-> b]
Num(n)   == [t |-> "num", v |-> n]
Null     == [t |-> "null", v |-> 0]
NoKeys   == << >>

\* obj[key] for a str key: the exception it raises, or "none"
GetItemError(obj, key) ==
  IF obj.t = "map"
  THEN IF key \in DOMAIN obj.v THEN "none" ELSE "KeyError"
  ELSE "TypeError"

\* obj[key] = val for a str key: the exception it raises, or "none"
SetItemError(obj) == IF obj.t = "map" THEN "none" ELSE "TypeError"

\* obj[key] = val on a dict
SetItem(obj, key, val) ==
  Map([k \in (DOMAIN obj.v) \cup {key} |-> IF k = key THEN val ELSE obj.v[k]])

\* obj[path[1]][path[2]]...[key] = val: the first exception raised, or "none"
RECURSIVE SetPathError(_, _)
SetPathError(obj, path) ==
  IF Len(path) = 0 THEN SetItemError(obj)
  ELSE IF GetItemError(obj, Head(path)) # "none"
       THEN GetItemError(obj, Head(path))
       ELSE SetPathError(obj.v[Head(path)], Tail(path))

\* obj[path[1]][path[2]]...[key] = val, the dicts being mutated in place
RECURSIVE SetPath(_, _, _, _)
SetPath(obj, path, key, val) ==
  IF Len(path) = 0 THEN SetItem(obj, key, val)
  ELSE SetItem(obj, Head(path), SetPath(obj.v[Head(path)], Tail(path), key, val))

\* ------------------------------------------------------------- the patch
\* {'enabled': True, 'asLocalhost': True}
DISCOVER ==
  Map([k \in {"enabled", "asLocalhost"} |-> Bool(TRUE)])

\* Mutant of FlattenPem: '\n'.join(lines), the backslash not doubled
FlattenPemUnescaped(value) == Join(<< "\n" >>, Split(Strip(value)))

\* Mutant of FlattenPem: every line terminated, the last one too
FlattenPemTerminated(value) ==
  Join(ESCAPED_NEWLINE, Split(Strip(value))) \o ESCAPED_NEWLINE

\* lines 31-32: the value stored for a certificate
FlattenPem(value) == Join(ESCAPED_NEWLINE, Split(Strip(value)))

\* Mutant of IsCertificate: the test for the PEM header left out
IsPemString(key, value) == key = "pem" /\ value.t = "str"

\* line 29: the test on a dict entry
IsCertificate(key, value) ==
  key = "pem" /\ value.t = "str" /\ Contains(value.v, BEGIN_CERTIFICATE)

\* fix_certificates(obj): the value obj holds once the call has returned
RECURSIVE fix_certificates(_)
fix_certificates(obj) ==
  IF obj.t = "map"
  THEN Map([key \in DOMAIN obj.v |->
              IF IsCertificate(key, obj.v[key])
              THEN Str(FlattenPem(obj.v[key].v))
              ELSE IF obj.v[key].t \in {"map", "list"}
                   THEN fix_certificates(obj.v[key])
                   ELSE obj.v[key]])
  ELSE IF obj.t = "list"
  THEN List([i \in DOMAIN obj.v |-> fix_certificates(obj.v[i])])
  ELSE obj

\* client.organization = 'Org1MSP' (line 17)
OrganizationError(doc) == SetPathError(doc, << "client" >>)

\* Mutant of SetOrganization: client.setdefault('organization', 'Org1MSP')
SetOrganizationIfAbsent(doc) ==
  IF "organization" \in DOMAIN doc.v["client"].v THEN doc
  ELSE SetPath(doc, << "client" >>, "organization", Str(ORG1MSP))

SetOrganization(doc) == SetPath(doc, << "client" >>, "organization", Str(ORG1MSP))

\* client.connection.timeout.discover = {...} (lines 20-23)
DiscoverPath == << "client", "connection", "timeout" >>
DiscoverError(doc) == SetPathError(doc, DiscoverPath)

\* Mutant of SetDiscover: discover stored under client.connection
SetDiscoverUnderConnection(doc) ==
  SetPath(doc, << "client", "connection" >>, "discover", DISCOVER)

SetDiscover(doc) == SetPath(doc, DiscoverPath, "discover", DISCOVER)

\* lines 17-39 on a parsed document: the exception that ends them, or "none"
PatchError(doc) ==
  IF OrganizationError(doc) # "none" THEN OrganizationError(doc)
  ELSE DiscoverError(SetOrganization(doc))

\* lines 17-39 on a parsed document on which they raise nothing
Patch(doc) == fix_certificates(SetDiscover(SetOrganization(doc)))

\* ------------------------------------------------------------- files
INPUT  == "../config/connection-profile.json"
BACKUP == "../config/connection-profile.json.bak"
\* Mutant of OUTPUT: the profile fixed in place
OutputIsInput == INPUT
OUTPUT == "config/connection-profile.json"
Paths  == { INPUT, BACKUP, OUTPUT }

\* The bytes of a file: JSON text of a document in some layout, text that is
\* no JSON, or no file at all.  json.loads keeps the document and forgets the
\* layout; json.dump(indent=4) writes the document in the layout "indent4".
JsonText(doc, layout) == [kind |-> "json", doc |-> doc, layout |-> layout]
NotJson               == [kind |-> "notjson", doc |-> Null, layout |-> "none"]
NoFile                == [kind |-> "nofile", doc |-> Null, layout |-> "none"]

\* json.loads(content)
LoadsError(text) == IF text.kind = "json" THEN "none" ELSE "JSONDecodeError"
Loads(text) == text.doc

\* json.dump(obj, f, indent=4): the bytes written
Dump(obj) == JsonText(obj, "indent4")

SUCCESS == "Connection profile has been fixed."

VARIABLES
  pc,                  \* the statement the script is about to run
  fs,                  \* path -> bytes of the file
  canWrite,            \* the paths the process may create or overwrite
  content,             \* the variable content (line 11)
  connection_profile,  \* the variable connection_profile (line 14)
  stdout,              \* the lines printed
  error,               \* the uncaught exception, "none" while there is none
  fs0,                 \* history: fs when the run started
  writes               \* history: the paths written, in order

vars == << pc, fs, canWrite, content, connection_profile, stdout, error, fs0, writes >>

\* Mutant of Raise: the exception is caught and the script goes on to write
RaiseAndGoOn(e) ==
  /\ pc' = "write"
  /\ error' = e

\* An exception nothing catches ends the script.
Raise(e) ==
  /\ pc' = "failed"
  /\ error' = e

\* line 7: os.system('cp INPUT BACKUP'); the exit status is dropped
CpSucceeds == fs[INPUT].kind # "nofile" /\ BACKUP \in canWrite
Backup ==
  /\ pc = "backup"
  /\ IF CpSucceeds
     THEN /\ fs' = [fs EXCEPT ![BACKUP] = fs[INPUT]]
          /\ writes' = Append(writes, BACKUP)
     ELSE UNCHANGED << fs, writes >>
  /\ pc' = "read"
  /\ UNCHANGED << canWrite, content, connection_profile, stdout, error, fs0 >>

\* lines 10-11: open(INPUT, 'r'); content = f.read()
Read ==
  /\ pc = "read"
  /\ IF fs[INPUT].kind = "nofile"
     THEN Raise("FileNotFoundError") /\ UNCHANGED content
     ELSE pc' = "loads" /\ content' = fs[INPUT] /\ UNCHANGED error
  /\ UNCHANGED << fs, canWrite, connection_profile, stdout, fs0, writes >>

\* line 14: connection_profile = json.loads(content)
LoadJson ==
  /\ pc = "loads"
  /\ IF LoadsError(content) # "none"
     THEN Raise(LoadsError(content)) /\ UNCHANGED connection_profile
     ELSE pc' = "organization" /\ connection_profile' = Loads(content)
          /\ UNCHANGED error
  /\ UNCHANGED << fs, canWrite, content, stdout, fs0, writes >>

\* line 17
FixOrganization ==
  /\ pc = "organization"
  /\ IF OrganizationError(connection_profile) # "none"
     THEN Raise(OrganizationError(connection_profile))
          /\ UNCHANGED connection_profile
     ELSE pc' = "discover"
          /\ connection_profile' = SetOrganization(connection_profile)
          /\ UNCHANGED error
  /\ UNCHANGED << fs, canWrite, content, stdout, fs0, writes >>

\* lines 20-23
AddDiscovery ==
  /\ pc = "discover"
  /\ IF DiscoverError(connection_profile) # "none"
     THEN Raise(DiscoverError(connection_profile))
          /\ UNCHANGED connection_profile
     ELSE pc' = "certificates"
          /\ connection_profile' = SetDiscover(connection_profile)
          /\ UNCHANGED error
  /\ UNCHANGED << fs, canWrite, content, stdout, fs0, writes >>

\* line 39: fix_certificates(connection_profile)
FixCertificates ==
  /\ pc = "certificates"
  /\ connection_profile' = fix_certificates(connection_profile)
  /\ pc' = "write"
  /\ UNCHANGED << fs, canWrite, content, stdout, error, fs0, writes >>

\* lines 42-43: open(OUTPUT, 'w'); json.dump(connection_profile, f, indent=4)
WriteOutput ==
  /\ pc = "write"
  /\ IF OUTPUT \in canWrite
     THEN /\ fs' = [fs EXCEPT ![OUTPUT] = Dump(connection_profile)]
          /\ writes' = Append(writes, OUTPUT)
          /\ pc' = "print"
          /\ UNCHANGED error
     ELSE Raise("OSError") /\ UNCHANGED << fs, writes >>
  /\ UNCHANGED << canWrite, content, connection_profile, stdout, fs0 >>

\* line 45
PrintSuccess ==
  /\ pc = "print"
  /\ stdout' = Append(stdout, SUCCESS)
  /\ pc' = "done"
  /\ UNCHANGED << fs, canWrite, content, connection_profile, error, fs0, writes >>

Next ==
  \/ Backup
  \/ Read
  \/ LoadJson
  \/ FixOrganization
  \/ AddDiscovery
  \/ FixCertificates
  \/ WriteOutput
  \/ PrintSuccess

\* ------------------------------------------------------------- the runs checked
\* Certificate texts: up to MaxPieces pieces, each the PEM header, a line
\* break, a blank or a letter of the base64 body.
Pieces == { BEGIN_CERTIFICATE, << "\n" >>, << " " >>, << "M" >> }

RECURSIVE TextsUpTo(_)
TextsUpTo(n) ==
  IF n = 0 THEN { << >> }
  ELSE TextsUpTo(n - 1) \cup { t \o p : t \in TextsUpTo(n - 1), p \in Pieces }

Texts == TextsUpTo(MaxPieces)

\* d levels of maps and sequences around v, alternating
RECURSIVE Wrap(_, _)
Wrap(v, d) ==
  IF d = 0 THEN v
  ELSE IF d % 2 = 1
       THEN Map([k \in {"tlsCACerts"} |-> Wrap(v, d - 1)])
       ELSE List(<< Wrap(v, d - 1) >>)

Entry(k, v)            == [x \in {k} |-> v]
Entries(k1, v1, k2, v2) == [x \in {k1, k2} |-> IF x = k1 THEN v1 ELSE v2]

\* Maps that hold the text s under "pem" and elsewhere.
PemMaps(s) ==
  { Map(Entries("pem", Str(s), "cert", Str(s))),
    Map(Entry("pem", Map(Entries("pem", Str(s), "port", Num(7051))))),
    Map(Entry("pem", List(<< Str(s), Map(Entry("pem", Str(s))) >>))),
    Map(Entries("pem", Null, "path", Str(s))) }

\* A client map the two assignments accept (the layout the script expects).
PlainClient ==
  Map(Entries("organization", Str(<< "X" >>),
              "connection", Map(Entry("timeout", Map(NoKeys)))))

\* Values of the key "client", well-formed or not.
Clients ==
  { PlainClient,
    Str(ORG1MSP),
    List(<< >>),
    Map(NoKeys),
    Map(Entries("organization", Str(ORG1MSP), "connection", Map(NoKeys))),
    Map(Entry("connection", Null)),
    Map(Entry("connection", Map(Entry("timeout", List(<< >>))))),
    Map(Entries("organization", Str(ORG1MSP),
                "connection",
                Map(Entry("timeout",
                          Map(Entries("discover", DISCOVER, "peer", Num(300))))))) }

\* A client map that holds the text s under "pem", beside and below the
\* entries the script assigns.
PemClient(s) ==
  Map(Entries("pem", Str(s),
              "connection",
              Map(Entry("timeout",
                        Map(Entries("pem", Str(s),
                                    "discover", Map(Entry("pem", Str(s)))))))))

\* The documents a run is started on.
Documents ==
  UNION { { Map(Entries("client", PlainClient, "peers", Wrap(m, d)))
              : m \in PemMaps(s), d \in 0..MaxDepth }
          \cup { Map(Entry("client", PemClient(s))) }
          : s \in Texts }
    \cup { Map(Entry("client", c)) : c \in Clients }
    \cup { Map(Entry("peers", Map(Entry("pem", Str(BEGIN_CERTIFICATE))))),
           List(<< Map(Entry("client", PlainClient)) >>),
           Str(ORG1MSP) }

\* What INPUT holds when a run starts.
Inputs ==
  { JsonText(d, l) : d \in Documents, l \in {"compact", "indent4"} }
    \cup { NotJson, NoFile }

\* What an earlier run left at BACKUP and OUTPUT; a first run finds no file
\* at either.
Stale == JsonText(Map(Entry("stale", Bool(TRUE))), "indent4")

Init ==
  /\ pc = "backup"
  /\ \E inp \in Inputs, left \in {NoFile, Stale} :
       fs = [p \in Paths |-> IF p = INPUT THEN inp ELSE left]
  /\ canWrite \in { w \in SUBSET Paths : INPUT \in w }
  /\ content = NoFile
  /\ connection_profile = Null
  /\ stdout = << >>
  /\ error = "none"
  /\ fs0 = fs
  /\ writes = << >>

Spec == Init /\ [][Next]_vars

\* ------------------------------------------------------------- properties
\* The document D the run was started on (Null when INPUT holds none).
Original == fs0[INPUT].doc

HasClientMap(doc) ==
  doc.t = "map" /\ "client" \in DOMAIN doc.v /\ doc.v["client"].t = "map"

\* obj[path[1]][path[2]]... is there and every container on the way is a map
RECURSIVE HasMapAt(_, _)
HasMapAt(obj, path) ==
  /\ obj.t = "map"
  /\ \/ Len(path) = 0
     \/ /\ Head(path) \in DOMAIN obj.v
        /\ HasMapAt(obj.v[Head(path)], Tail(path))

Written(p) == \E i \in 1..Len(writes) : writes[i] = p

\* Line 17 has run and raised nothing.
OrganizationSet ==
  \/ pc \in {"discover", "certificates", "write", "print", "done"}
  \/ pc = "failed" /\ HasClientMap(Original)

\* Lines 20-23 have run and raised nothing.
DiscoverSet ==
  \/ pc \in {"certificates", "write", "print", "done"}
  \/ pc = "failed" /\ error = "OSError"

\* Line 39 has returned.
CertificatesFixed ==
  \/ pc \in {"write", "print", "done"}
  \/ pc = "failed" /\ error = "OSError"

\* C3: whenever the input document has a client map, once line 17 has run
\* the document in memory has client.organization = "Org1MSP", whatever it
\* held before, and so has every document the run writes to OUTPUT.
C3_OrganizationIsOrg1MSP ==
  /\ (HasClientMap(Original) /\ OrganizationSet)
       => /\ HasClientMap(connection_profile)
          /\ "organization" \in DOMAIN connection_profile.v["client"].v
          /\ connection_profile.v["client"].v["organization"] = Str(ORG1MSP)
  /\ Written(OUTPUT)
       => /\ fs[OUTPUT].kind = "json"
          /\ HasClientMap(fs[OUTPUT].doc)
          /\ "organization" \in DOMAIN fs[OUTPUT].doc.v["client"].v
          /\ fs[OUTPUT].doc.v["client"].v["organization"] = Str(ORG1MSP)

\* C3 witness: a run on a document whose organization was "X" has written
\* its output.
C3_Witness ==
  /\ pc = "done"
  /\ HasClientMap(Original)
  /\ "organization" \in DOMAIN Original.v["client"].v
  /\ Original.v["client"].v["organization"] = Str(<< "X" >>)
  /\ fs[OUTPUT].doc.v["client"].v["organization"] = Str(ORG1MSP)

\* C2 as stated: for every input document with a client map, connection and
\* timeout present or not, lines 20-23 complete and leave
\* client.connection.timeout.discover = {enabled: true, asLocalhost: true}.
C2_DiscoverSetForEveryDocument ==
  HasClientMap(Original)
    => /\ error \notin {"KeyError", "TypeError"}
       /\ DiscoverSet
            => /\ HasMapAt(connection_profile, DiscoverPath)
               /\ "discover" \in DOMAIN connection_profile.v["client"].v["connection"].v["timeout"].v
               /\ connection_profile.v["client"].v["connection"].v["timeout"].v["discover"] = DISCOVER

\* C2 amended: when client, client.connection and client.connection.timeout
\* are maps in the input document, no KeyError or TypeError is raised and
\* once lines 20-23 have run, and in every output written, discover is
\* {enabled: true, asLocalhost: true}; when client is a map but connection
\* or timeout is absent or no map, no intermediate map is created: the run
\* never gets past line 20, ends in a KeyError or TypeError and writes no
\* output.
C2_DiscoverSetWhenPathExists ==
  /\ HasMapAt(Original, DiscoverPath)
       => /\ error \notin {"KeyError", "TypeError"}
          /\ DiscoverSet
               => /\ HasMapAt(connection_profile, DiscoverPath)
                  /\ "discover" \in DOMAIN connection_profile.v["client"].v["connection"].v["timeout"].v
                  /\ connection_profile.v["client"].v["connection"].v["timeout"].v["discover"] = DISCOVER
          /\ Written(OUTPUT)
               => fs[OUTPUT].doc.v["client"].v["connection"].v["timeout"].v["discover"] = DISCOVER
  /\ (HasClientMap(Original) /\ ~HasMapAt(Original, DiscoverPath))
       => /\ pc \in {"backup", "read", "loads", "organization", "discover", "failed"}
          /\ pc = "failed" => error \in {"KeyError", "TypeError"}
          /\ ~Written(OUTPUT)
          /\ ~HasMapAt(connection_profile, DiscoverPath)

\* C2 witness: a run finished on a document whose timeout map held another
\* discover value, and a run failed on one with no connection map.
C2_Witness ==
  \/ /\ pc = "done"
     /\ HasMapAt(Original, DiscoverPath)
     /\ "discover" \in DOMAIN Original.v["client"].v["connection"].v["timeout"].v
     /\ Original.v["client"].v["connection"].v["timeout"].v["discover"] # DISCOVER
     /\ fs[OUTPUT].doc.v["client"].v["connection"].v["timeout"].v["discover"] = DISCOVER
  \/ /\ pc = "failed"
     /\ error = "KeyError"
     /\ HasClientMap(Original)
     /\ "connection" \notin DOMAIN Original.v["client"].v

\* C6 as stated: after any run that reaches the success message, BACKUP
\* exists and holds exactly the bytes INPUT had when the run started.
C6_BackupIdenticalAfterSuccess ==
  (pc = "done" \/ Len(stdout) > 0)
    => /\ fs[BACKUP].kind # "nofile"
       /\ fs[BACKUP] = fs0[INPUT]

\* C7 as stated: once the copy of line 7 has failed, the run writes no
\* output and prints no success message.
C7_FailedBackupStopsTheRun ==
  (pc # "backup" /\ ~Written(BACKUP))
    => /\ ~Written(OUTPUT)
       /\ stdout = << >>
       /\ pc # "done"

\* C8: when INPUT is missing, is no JSON, or its document has no client map,
\* the run never reaches line 20: it ends in an exception, OUTPUT is never
\* opened for writing and keeps the bytes it had, and nothing is printed.
BadInput ==
  \/ fs0[INPUT].kind # "json"
  \/ ~HasClientMap(Original)

C8_BadInputAbortsBeforeOutput ==
  BadInput
    => /\ pc \in {"backup", "read", "loads", "organization", "failed"}
       /\ pc = "failed" => error \in {"FileNotFoundError", "JSONDecodeError",
                                       "KeyError", "TypeError"}
       /\ ~Written(OUTPUT)
       /\ fs[OUTPUT] = fs0[OUTPUT]
       /\ stdout = << >>

\* C8 witness: runs on a missing input, on text that is no JSON and on a
\* document without client have ended, an earlier output file still in place.
C8_Witness ==
  /\ pc = "failed"
  /\ fs0[OUTPUT] = Stale
  /\ fs[OUTPUT] = Stale
  /\ \/ fs0[INPUT].kind = "nofile" /\ error = "FileNotFoundError"
     \/ fs0[INPUT].kind = "notjson" /\ error = "JSONDecodeError"
     \/ fs0[INPUT].kind = "json" /\ error = "KeyError"
          /\ Original.t = "map" /\ "client" \notin DOMAIN Original.v

\* C10: in every state of a run INPUT holds the bytes it held at the start;
\* the run writes BACKUP and OUTPUT only, BACKUP with the bytes of INPUT,
\* and OUTPUT only once lines 17-39 have all run, with the patched document.
C10_InputNeverWritten ==
  /\ fs[INPUT] = fs0[INPUT]
  /\ \A i \in 1..Len(writes) : writes[i] \in {BACKUP, OUTPUT} \ {INPUT}
  /\ \A p \in Paths : ~Written(p) => fs[p] = fs0[p]
  /\ Written(BACKUP) => fs[BACKUP] = fs0[INPUT]
  /\ Written(OUTPUT)
       => /\ pc \in {"print", "done"}
          /\ PatchError(Original) = "none"
          /\ fs[OUTPUT] = Dump(Patch(Original))

\* C10 witness: a finished run has written both files, the output differing
\* from the input.
C10_Witness ==
  /\ pc = "done"
  /\ Written(BACKUP)
  /\ Written(OUTPUT)
  /\ fs[OUTPUT] # fs[INPUT]
  /\ fs[OUTPUT].doc # Original

\* The "pem" strings of the document `before`, each paired with what
\* `after` holds at the same place (Null when it holds nothing there).  `at`
\* is the path from the root; what line 20 replaces is left out.
At(obj, k) ==
  IF obj.t \in {"map", "list"} /\ k \in DOMAIN obj.v THEN obj.v[k] ELSE Null

RECURSIVE PemPairs(_, _, _)
PemPairs(before, after, at) ==
  IF before.t = "map"
  THEN UNION { IF at = DiscoverPath /\ k = "discover" THEN {}
               ELSE IF k = "pem" /\ before.v[k].t = "str"
                    THEN { << before.v[k].v, At(after, k) >> }
                    ELSE PemPairs(before.v[k], At(after, k), Append(at, k))
               : k \in DOMAIN before.v }
  ELSE IF before.t = "list"
  THEN UNION { PemPairs(before.v[i], At(after, i), Append(at, "[]"))
               : i \in DOMAIN before.v }
  ELSE {}

HasHeader(s)    == Contains(s, BEGIN_CERTIFICATE)
HasLineBreak(s) == \E i \in 1..Len(s) : s[i] = "\n"

\* s with every line break replaced by backslash, n: its lines joined by the
\* two characters, nothing else touched
RECURSIVE EscapeLineBreaks(_)
EscapeLineBreaks(s) ==
  IF s = << >> THEN << >>
  ELSE (IF Head(s) = "\n" THEN << "\\", "n" >> ELSE << Head(s) >>)
         \o EscapeLineBreaks(Tail(s))

\* s without its leading and trailing whitespace
RECURSIVE DropLeading(_)
DropLeading(s) ==
  IF s = << >> \/ Head(s) \notin Whitespace THEN s ELSE DropLeading(Tail(s))

RECURSIVE DropTrailing(_)
DropTrailing(s) ==
  IF s = << >> \/ s[Len(s)] \notin Whitespace THEN s
  ELSE DropTrailing(SubSeq(s, 1, Len(s) - 1))

Trimmed(s) == DropTrailing(DropLeading(s))

C9_FlatPemUntouched ==
  CertificatesFixed
    => \A pr \in PemPairs(Original, connection_profile, << >>) :
         (HasHeader(pr[1]) /\ ~HasLineBreak(pr[1])) => pr[2] = Str(pr[1])

\* C9 amended: a "pem" string with the PEM header and no line break is not
\* skipped but rewritten to its value without leading and trailing
\* whitespace: it is left as it was exactly when it has none.
C9_FlatPemStripped ==
  CertificatesFixed
    => \A pr \in PemPairs(Original, connection_profile, << >>) :
         (HasHeader(pr[1]) /\ ~HasLineBreak(pr[1]))
           => /\ pr[2] = Str(Trimmed(pr[1]))
              /\ (pr[2] = Str(pr[1])) <=> (Trimmed(pr[1]) = pr[1])

\* C9 witness: a finished run met a one-line certificate with whitespace
\* around it and one without.
C9_Witness ==
  /\ pc = "done"
  /\ \E pr \in PemPairs(Original, connection_profile, << >>) :
       /\ HasHeader(pr[1])
       /\ ~HasLineBreak(pr[1])
       /\ \/ pr[1] = BEGIN_CERTIFICATE \o << "M" >> /\ pr[2] = Str(pr[1])
          \/ pr[1] = << " " >> \o BEGIN_CERTIFICATE /\ pr[2] = Str(BEGIN_CERTIFICATE)

\* json.loads has returned a document.
Loaded ==
  \/ pc \in {"organization", "discover", "certificates", "write", "print", "done"}
  \/ pc = "failed" /\ error \in {"KeyError", "TypeError", "OSError"}

\* `after` is `before` but for client.organization,
\* client.connection.timeout.discover and the "pem" strings that hold the PEM
\* header: same keys, same sequence lengths, same values everywhere else.
RECURSIVE SameButSites(_, _, _)
SameButSites(before, after, at) ==
  IF before.t = "map"
  THEN /\ after.t = "map"
       /\ \A k \in (DOMAIN before.v) \cup (DOMAIN after.v) :
            \/ at = << "client" >> /\ k = "organization"
            \/ at = DiscoverPath /\ k = "discover"
            \/ /\ k \in DOMAIN before.v
               /\ k \in DOMAIN after.v
               /\ \/ k = "pem" /\ before.v[k].t = "str" /\ HasHeader(before.v[k].v)
                  \/ SameButSites(before.v[k], after.v[k], Append(at, k))
  ELSE IF before.t = "list"
  THEN /\ after.t = "list"
       /\ Len(after.v) = Len(before.v)
       /\ \A i \in DOMAIN before.v :
            SameButSites(before.v[i], after.v[i], Append(at, "[]"))
  ELSE after = before

\* C4: from json.loads on, the document in memory, and the document written
\* to OUTPUT, equal the input document everywhere but at client.organization,
\* client.connection.timeout.discover and the "pem" strings holding the PEM
\* header: entries not keyed "pem", "pem" entries that are no strings and
\* "pem" strings without the header are unchanged, no key or element is
\* added or removed elsewhere.
C4_FrameOutsideTheThreeSites ==
  /\ Loaded => SameButSites(Original, connection_profile, << >>)
  /\ Written(OUTPUT) => SameButSites(Original, fs[OUTPUT].doc, << >>)

\* Some entry keyed k under obj holds the string s.
RECURSIVE Holds(_, _, _)
Holds(obj, k, s) ==
  IF obj.t = "map"
  THEN \E x \in DOMAIN obj.v :
         \/ x = k /\ obj.v[x] = Str(s)
         \/ Holds(obj.v[x], k, s)
  ELSE IF obj.t = "list"
  THEN \E i \in DOMAIN obj.v : Holds(obj.v[i], k, s)
  ELSE FALSE

\* C4 witness: a finished run has changed a certificate and has left alone a
\* "pem" string without the header that has whitespace around it, and a
\* multiline certificate under the key "cert".
C4_Witness ==
  /\ pc = "done"
  /\ \/ \E pr \in PemPairs(Original, fs[OUTPUT].doc, << >>) :
          ~HasHeader(pr[1]) /\ Trimmed(pr[1]) # pr[1] /\ pr[2] = Str(pr[1])
     \/ \E s \in Texts :
          /\ HasHeader(s) /\ HasLineBreak(s)
          /\ Holds(Original, "cert", s)
          /\ Holds(fs[OUTPUT].doc, "cert", s)
          /\ ~Holds(fs[OUTPUT].doc, "pem", s)

\* C5: once the three steps have run on a document, running them again on
\* the result raises nothing and yields the same document.
C5_PatchIdempotent ==
  CertificatesFixed
    => /\ PatchError(connection_profile) = "none"
       /\ Patch(connection_profile) = connection_profile
       /\ connection_profile = Patch(Original)

\* C5 witness: the first patch changed a multiline certificate, and the
\* second changes nothing.
C5_Witness ==
  /\ pc = "done"
  /\ \E pr \in PemPairs(Original, connection_profile, << >>) :
       /\ HasHeader(pr[1]) /\ HasLineBreak(pr[1])
       /\ pr[2] # Str(pr[1])
  /\ Patch(connection_profile) = connection_profile

====
